---- MODULE Spec2Model ----
(***************************************************************************)
(* Title card types of TitleCardMaker-CardTypes: TintedFramePlus,          *)
(* DawnTitleCard, HorizonTitleCard and SlimTitleCard.                      *)
(*                                                                         *)
(* A card is made in three steps: the host validates the parameters with   *)
(* the class's CardModel (field types first, then the root validators in   *)
(* order, each skipped once an error exists), constructs the card object   *)
(* from the validated values and calls create(), which hands one command   *)
(* to the image tool.                                                      *)
(*                                                                         *)
(* Conventions of the model:                                               *)
(*  - a path is a record [dir, name]; the paths of the model are absolute, *)
(*    so Path.resolve() returns the path itself, and PathStr renders it;   *)
(*  - Python's None is the string None;                                    *)
(*  - float parameters are kept in hundredths (100 is 1.0) and rendered    *)
(*    by Dec as Python's str() renders the float;                          *)
(*  - horizontal frame coordinates are kept doubled (x2 is 2 * x) so that  *)
(*    the halves of WIDTH / 2 - element_width / 2 stay exact;              *)
(*  - the host's pieces of a command (resize_and_style, add_overlay_mask,  *)
(*    resize_output, Rectangle.draw) are rendered as single tokens;        *)
(*  - loader is the load of the card module by the host, one top-level     *)
(*    statement at a time, and formatted holds the fallback season texts   *)
(*    the host has asked the loaded class for.                             *)
(***************************************************************************)
EXTENDS Integers, Sequences, FiniteSets, TLC

VARIABLES params, env, pc, values, err, self, created, runlog, lastRead,
          formatted, loader

vars == <<params, env, pc, values, err, self, created, runlog, lastRead,
          formatted, loader>>

(***************************************************************************)
(* Bounds of the model.                                                    *)
(***************************************************************************)
\* create() calls made on one card object
MaxCreates == 2
\* measured widths of the index text are 1000 * k pixels, k in 1..MaxTextWidth
MaxTextWidth == 3
\* season numbers of the episodes are 0..MaxSeason
MaxSeason == 5

None == "None"

Classes == {"TintedFramePlus", "DawnTitleCard", "HorizonTitleCard", "SlimTitleCard"}

Instances == {1, 2}

(***************************************************************************)
(* Paths.                                                                  *)
(***************************************************************************)
Path(d, n) == [dir |-> d, name |-> n]

PathStr(p) == p.dir \o "/" \o p.name

\* pathlib: path.parent / name
Beside(p, n) == Path(p.dir, n)

SourceFile == Path("/series", "s1e1.jpg")
CardFile == Path("/cards", "s1e1.jpg")
LogoFile == Path("/series", "logo.png")
TitleFontFile == Path("/fonts", "Title.ttf")
\* the three documented forms of the episode text font
TitleFontKey == Path(".", "{title_font}")
BareFont == Path(".", "Exo.ttf")
FullFont == Path("/fonts", "Exo.ttf")
BesideFont == Beside(SourceFile, "Exo.ttf")

\* files whose existence varies between runs; the source image always exists
FileUniverse == {LogoFile, TitleFontFile, FullFont, BesideFont}

Exists(p) == p = SourceFile \/ p \in env.fs

RemoteFile(user, file) == Path("/remote/" \o user, file)

\* a RemoteFile exists once the host has downloaded it
RemoteExists(p) == env.remote

(***************************************************************************)
(* Number rendering.                                                       *)
(***************************************************************************)
Abs(n) == IF n < 0 THEN -n ELSE n

\* str() of the float h / 100: at least one decimal, no trailing zero
Dec(h) ==
    LET a == Abs(h)
        f == a % 100
        frac == IF f % 10 = 0 THEN ToString(f \div 10)
                ELSE IF f < 10 THEN "0" \o ToString(f)
                ELSE ToString(f)
    IN  (IF h < 0 THEN "-" ELSE "") \o ToString(a \div 100) \o "." \o frac

\* the format spec {n:+} of an int
Signed(n) == IF n < 0 THEN ToString(n) ELSE "+" \o ToString(n)

\* the format spec {x:+} of the float h / 100
SignedDec(h) == IF h < 0 THEN Dec(h) ELSE "+" \o Dec(h)

\* a doubled coordinate rendered as the number it stands for
Half(x2) == IF x2 % 2 = 0 THEN ToString(x2 \div 2)
            ELSE ToString(x2 \div 2) \o ".5"

(***************************************************************************)
(* Parameters handed to CardModel.  An extra the user did not give is      *)
(* Unset (colours, symbol and crt_overlay: None, their declared default);  *)
(* the boolean extras arrive as the strings the host's forms produce.      *)
(***************************************************************************)
Unset == "Unset"

\* pydantic's bool parsing of the forms used here
ParseBool(v) == v = "True"

BoolForms == {"True", "False"}

\* declared default of a field that was not given
OrDefault(v, d) == IF v = Unset THEN d ELSE v

DefaultParams(c) ==
    [cls |-> c,
     source_file |-> SourceFile,
     card_file |-> CardFile,
     logo_file |-> LogoFile,
     title_text |-> <<"Pilot">>,
     season_text |-> "Season 1",
     episode_text |-> "Episode 1",
     hide_season_text |-> FALSE,
     hide_episode_text |-> FALSE,
     font_color |-> "white",
     font_file |-> TitleFontFile,
     font_interline_spacing |-> 0,
     font_interword_spacing |-> 0,
     font_kerning |-> 100,
     font_size |-> 100,
     font_stroke_width |-> 100,
     font_vertical_shift |-> 0,
     blur |-> FALSE,
     grayscale |-> FALSE,
     stroke_color |-> Unset,
     separator |-> Unset,
     title_text_horizontal_shift |-> 0,
     episode_text_color |-> None,
     episode_text_stroke_color |-> None,
     episode_text_font |-> FullFont,
     episode_text_font_size |-> 100,
     episode_text_vertical_shift |-> 0,
     episode_text_kerning |-> 18,
     frame_color |-> None,
     frame_width |-> 3,
     top_element |-> Unset,
     middle_element |-> Unset,
     bottom_element |-> Unset,
     logo_size |-> 100,
     blur_edges |-> TRUE,
     h_align |-> Unset,
     symbol |-> None,
     crt_overlay |-> None,
     crt_state_overlay |-> Unset,
     omit_gradient |-> Unset,
     alignment_overlay |-> FALSE]

(***************************************************************************)
(* External facts a card observes: which files exist, whether the remote   *)
(* reference files are present, whether the host finds a mask image for    *)
(* the source, the watched status, and the dimensions the image tool       *)
(* measures.                                                               *)
(***************************************************************************)
DefaultEnv ==
    [fs |-> FileUniverse,
     remote |-> TRUE,
     mask |-> FALSE,
     watched |-> FALSE,
     text_width |-> 1000,
     logo_dims |-> <<600, 150>>]

TextWidths == {1000 * k : k \in 1..MaxTextWidth}

\* measured (width, height) of the logo image
LogoDims == {<<600, 150>>, <<5600, 300>>, <<6000, 150>>}

Hidden == {<<FALSE, FALSE>>, <<TRUE, FALSE>>, <<FALSE, TRUE>>, <<TRUE, TRUE>>}

FontForms == {TitleFontKey, BareFont, FullFont}

(***************************************************************************)
(* CardModel: field validation.  A Literal field rejects every value that  *)
(* is not listed; fields that were not given take the declared default.    *)
(***************************************************************************)
\* the errors of a validation are a set of messages or field names
NoError == {}

\* the separator character U+2022 of Dawn and Horizon
Bullet == "(bullet)"

TintedFramePlus_top_element == {"index", "logo", "omit"}
TintedFramePlus_middle_element == {"logo", "omit"}
TintedFramePlus_bottom_element == {"index", "logo", "omit"}

DawnTitleCard_h_align == {"left", "center", "right"}
DawnTitleCard_crt_overlay == {"nobezel", "bezel"}

HorizonTitleCard_h_align == {"left", "right"}
HorizonTitleCard_symbol ==
    {"acolyte", "ashoka", "andor", "bobafett", "mandalorian", "obiwan",
     "witcher", "logo"}
HorizonTitleCard_crt_overlay == {"nobzel", "bezel"}

\* the fields whose value their declared type rejects
FieldErrors(p) ==
    LET bad(v, allowed) == v \notin allowed \cup {Unset}
        opt(v, allowed) == v \notin allowed \cup {None}
        boolean(v) == v \notin BoolForms \cup {Unset}
        check(failed, field) == IF failed THEN {field} ELSE {}
    IN  CASE p.cls = "TintedFramePlus" ->
               check(bad(p.top_element, TintedFramePlus_top_element),
                     "top_element")
               \cup check(bad(p.middle_element, TintedFramePlus_middle_element),
                          "middle_element")
               \cup check(bad(p.bottom_element, TintedFramePlus_bottom_element),
                          "bottom_element")
               \cup check(~ Exists(p.font_file), "font_file")
          [] p.cls = "DawnTitleCard" ->
               check(bad(p.h_align, DawnTitleCard_h_align), "h_align")
               \cup check(opt(p.crt_overlay, DawnTitleCard_crt_overlay),
                          "crt_overlay")
               \cup check(boolean(p.crt_state_overlay), "crt_state_overlay")
               \cup check(boolean(p.omit_gradient), "omit_gradient")
          [] p.cls = "HorizonTitleCard" ->
               check(bad(p.h_align, HorizonTitleCard_h_align), "h_align")
               \cup check(opt(p.symbol, HorizonTitleCard_symbol), "symbol")
               \cup check(opt(p.crt_overlay, HorizonTitleCard_crt_overlay),
                          "crt_overlay")
               \cup check(boolean(p.crt_state_overlay), "crt_state_overlay")
               \cup check(boolean(p.omit_gradient), "omit_gradient")
          [] OTHER ->
               check(boolean(p.omit_gradient), "omit_gradient")

\* the field values after field validation: defaults filled in, booleans parsed
FieldValues(p) ==
    [p EXCEPT
        !.top_element = OrDefault(@, "logo"),
        !.middle_element = OrDefault(@, "omit"),
        !.bottom_element = OrDefault(@, "index"),
        !.h_align = OrDefault(@, "left"),
        !.stroke_color = OrDefault(@, "black"),
        !.separator =
            OrDefault(@, IF p.cls = "TintedFramePlus" THEN "-" ELSE Bullet),
        !.crt_state_overlay = IF @ = Unset THEN FALSE ELSE ParseBool(@),
        !.omit_gradient =
            IF @ = Unset THEN p.cls # "SlimTitleCard" ELSE ParseBool(@)]

(***************************************************************************)
(* CardModel: root validators.  Each returns the values it leaves and the  *)
(* message of the ValueError it raises (NoError when it returns).          *)
(***************************************************************************)
FontError == "Specified Episode Text Font does not exist"
LogoError == "Logo file indicated and does not exist"
ElementsError == "Top/middle/bottom elements cannot be the same"

Returned(v) == [values |-> v, error |-> NoError]
Raised(v, e) == [values |-> v, error |-> {e}]

\* the validator without the search alongside the source image
TintedFramePlus_validate_episode_text_font_file_no_search(v) ==
    IF ~ Exists(v.episode_text_font)
    THEN Raised(v, FontError)
    ELSE Returned(v)

TintedFramePlus_validate_episode_text_font_file(v) ==
    LET etf == v.episode_text_font
        new_etf == Beside(v.source_file, etf.name)
        v1 == IF ~ Exists(etf) /\ Exists(new_etf)
              THEN [v EXCEPT !.episode_text_font = new_etf]
              ELSE v
    IN  IF ~ Exists(v1.episode_text_font)
        THEN Raised(v1, FontError)
        ELSE Returned(v1)

\* validate_extras comparing only the top element with the others
TintedFramePlus_validate_extras_top_only(v) ==
    LET top == v.top_element
        middle == v.middle_element
        bottom == v.bottom_element
        v1 == IF v.episode_text_color = None
              THEN [v EXCEPT !.episode_text_color = v.font_color]
              ELSE v
        v2 == IF v1.frame_color = None
              THEN [v1 EXCEPT !.frame_color = v1.font_color]
              ELSE v1
    IN  IF /\ (top = "logo" \/ middle = "logo" \/ bottom = "logo")
           /\ ~ Exists(v.logo_file)
        THEN Raised(v, LogoError)
        ELSE IF top # "omit" /\ top \in {middle, bottom}
        THEN Raised(v, ElementsError)
        ELSE Returned(v2)

\* validate_extras looking for the logo at the top and bottom only
TintedFramePlus_validate_extras_logo_top_bottom(v) ==
    LET top == v.top_element
        middle == v.middle_element
        bottom == v.bottom_element
        v1 == IF v.episode_text_color = None
              THEN [v EXCEPT !.episode_text_color = v.font_color]
              ELSE v
        v2 == IF v1.frame_color = None
              THEN [v1 EXCEPT !.frame_color = v1.font_color]
              ELSE v1
    IN  IF /\ (top = "logo" \/ bottom = "logo")
           /\ ~ Exists(v.logo_file)
        THEN Raised(v, LogoError)
        ELSE IF \/ (top # "omit" /\ top \in {middle, bottom})
                \/ (middle # "omit" /\ middle = bottom)
        THEN Raised(v, ElementsError)
        ELSE Returned(v2)

TintedFramePlus_validate_extras(v) ==
    LET top == v.top_element
        middle == v.middle_element
        bottom == v.bottom_element
        v1 == IF v.episode_text_color = None
              THEN [v EXCEPT !.episode_text_color = v.font_color]
              ELSE v
        v2 == IF v1.frame_color = None
              THEN [v1 EXCEPT !.frame_color = v1.font_color]
              ELSE v1
    IN  IF /\ (top = "logo" \/ middle = "logo" \/ bottom = "logo")
           /\ ~ Exists(v.logo_file)
        THEN Raised(v, LogoError)
        ELSE IF \/ (top # "omit" /\ top \in {middle, bottom})
                \/ (middle # "omit" /\ middle = bottom)
        THEN Raised(v, ElementsError)
        ELSE Returned(v2)

\* the validator preferring the file beside the source image to the given path
DawnTitleCard_validate_episode_text_font_file_beside_first(v) ==
    LET etf == v.episode_text_font
        new_etf == Beside(v.source_file, etf.name)
        v1 == IF etf = TitleFontKey
              THEN [v EXCEPT !.episode_text_font = v.font_file]
              ELSE IF Exists(new_etf)
              THEN [v EXCEPT !.episode_text_font = new_etf]
              ELSE v
    IN  IF ~ Exists(v1.episode_text_font)
        THEN Raised(v1, FontError)
        ELSE Returned(v1)

DawnTitleCard_validate_episode_text_font_file(v) ==
    LET etf == v.episode_text_font
        new_etf == Beside(v.source_file, etf.name)
        v1 == IF etf = TitleFontKey
              THEN [v EXCEPT !.episode_text_font = v.font_file]
              ELSE IF ~ Exists(etf) /\ Exists(new_etf)
              THEN [v EXCEPT !.episode_text_font = new_etf]
              ELSE v
    IN  IF ~ Exists(v1.episode_text_font)
        THEN Raised(v1, FontError)
        ELSE Returned(v1)

DawnTitleCard_validate_extras(v) ==
    LET v1 == IF v.episode_text_color = None
              THEN [v EXCEPT !.episode_text_color = v.font_color]
              ELSE v
        v2 == IF v1.episode_text_stroke_color = None
              THEN [v1 EXCEPT !.episode_text_stroke_color = v1.stroke_color]
              ELSE v1
    IN  Returned(v2)

HorizonTitleCard_validate_episode_text_font_file(v) ==
    LET etf == v.episode_text_font
        new_etf == Beside(v.source_file, etf.name)
        v1 == IF etf = TitleFontKey
              THEN [v EXCEPT !.episode_text_font = v.font_file]
              ELSE IF ~ Exists(etf) /\ Exists(new_etf)
              THEN [v EXCEPT !.episode_text_font = new_etf]
              ELSE v
    IN  IF ~ Exists(v1.episode_text_font)
        THEN Raised(v1, FontError)
        ELSE Returned(v1)

\* validate_extras taking the font colour for a missing stroke colour
HorizonTitleCard_validate_extras_font_for_stroke(v) ==
    LET v1 == IF v.episode_text_color = None
              THEN [v EXCEPT !.episode_text_color = v.font_color]
              ELSE v
        v2 == IF v1.episode_text_stroke_color = None
              THEN [v1 EXCEPT !.episode_text_stroke_color = v1.font_color]
              ELSE v1
    IN  Returned(v2)

HorizonTitleCard_validate_extras(v) ==
    LET v1 == IF v.episode_text_color = None
              THEN [v EXCEPT !.episode_text_color = v.font_color]
              ELSE v
        v2 == IF v1.episode_text_stroke_color = None
              THEN [v1 EXCEPT !.episode_text_stroke_color = v1.stroke_color]
              ELSE v1
    IN  Returned(v2)

\* root_validator(skip_on_failure=True): the validator is skipped, and the
\* result so far kept, once an error exists
SkipOnFailure(r, validated) ==
    IF r.error # NoError THEN r ELSE validated

\* the root validators of the class's CardModel, in definition order
RootValidators(c, v) ==
    CASE c = "TintedFramePlus" ->
           LET r == SkipOnFailure(Returned(v),
                        TintedFramePlus_validate_episode_text_font_file(v))
           IN  SkipOnFailure(r, TintedFramePlus_validate_extras(r.values))
      [] c = "DawnTitleCard" ->
           LET r == SkipOnFailure(Returned(v),
                        DawnTitleCard_validate_episode_text_font_file(v))
           IN  SkipOnFailure(r, DawnTitleCard_validate_extras(r.values))
      [] c = "HorizonTitleCard" ->
           LET r == SkipOnFailure(Returned(v),
                        HorizonTitleCard_validate_episode_text_font_file(v))
           IN  SkipOnFailure(r, HorizonTitleCard_validate_extras(r.values))
      [] OTHER -> Returned(v)

\* CardModel(**params): the outcome of the whole validation
CardModel(p) ==
    IF FieldErrors(p) # NoError
    THEN [values |-> p, error |-> FieldErrors(p)]
    ELSE RootValidators(p.cls, FieldValues(p))

(***************************************************************************)
(* Pieces every card takes from the host's base class.                     *)
(***************************************************************************)
WIDTH == 3200
HEIGHT == 1800
TITLE_CARD_SIZE == ToString(WIDTH) \o "x" \o ToString(HEIGHT)

\* str.join
RECURSIVE Join(_, _)
Join(sep, parts) ==
    IF Len(parts) = 0 THEN ""
    ELSE IF Len(parts) = 1 THEN parts[1]
    ELSE parts[1] \o sep \o Join(sep, Tail(parts))

Quoted(str) == "\"" \o str \o "\""

\* the title text is a sequence of lines; the card object holds them joined
TitleStr(lines) == Join("\\n", lines)

ResizeAndStyle(s) ==
    <<"-resize \"" \o TITLE_CARD_SIZE \o "^\"">>
    \o (IF s.blur THEN <<"-blur 0x60">> ELSE <<>>)
    \o (IF s.grayscale THEN <<"-colorspace gray">> ELSE <<>>)

AddOverlayMask(s, e) ==
    IF e.mask
    THEN <<"\\( " \o Quoted(PathStr(Beside(s.source_file, "mask.png"))) \o " \\)",
           "-composite">>
    ELSE <<>>

ResizeOutput == <<"-resize \"" \o TITLE_CARD_SIZE \o "\"">>

Coordinate(x2, y) == [x2 |-> x2, y |-> y]

\* Rectangle(start, end).draw()
Rectangle(start, end) ==
    "-draw \"rectangle " \o Half(start.x2) \o "," \o ToString(start.y) \o ","
        \o Half(end.x2) \o "," \o ToString(end.y) \o "\""

(***************************************************************************)
(* TintedFramePlus.                                                        *)
(***************************************************************************)
BOX_OFFSET == 185
BOX_WIDTH == 3

TintedFramePlus_init(v) ==
    [cls |-> "TintedFramePlus",
     blur |-> v.blur,
     grayscale |-> v.grayscale,
     source_file |-> v.source_file,
     output_file |-> v.card_file,
     logo |-> v.logo_file,
     title_text |-> TitleStr(v.title_text),
     season_text |-> v.season_text,
     episode_text |-> v.episode_text,
     hide_season_text |-> v.hide_season_text,
     hide_episode_text |-> v.hide_episode_text,
     font_color |-> v.font_color,
     font_file |-> v.font_file,
     font_interline_spacing |-> v.font_interline_spacing,
     font_interword_spacing |-> v.font_interword_spacing,
     font_kerning |-> v.font_kerning,
     font_size |-> v.font_size,
     font_stroke_width |-> v.font_stroke_width,
     font_vertical_shift |-> v.font_vertical_shift,
     blur_edges |-> v.blur_edges,
     bottom_element |-> v.bottom_element,
     episode_text_color |-> v.episode_text_color,
     episode_text_font |-> v.episode_text_font,
     episode_text_font_size |-> v.episode_text_font_size,
     episode_text_vertical_shift |-> v.episode_text_vertical_shift,
     frame_color |-> v.frame_color,
     frame_width |-> v.frame_width,
     middle_element |-> v.middle_element,
     logo_size |-> v.logo_size,
     stroke_color |-> v.stroke_color,
     top_element |-> v.top_element,
     separator |-> v.separator]

TintedFramePlus_blur_commands(s, e) ==
    IF ~ s.blur_edges \/ s.blur THEN <<>>
    ELSE LET crop_width == WIDTH - (2 * BOX_OFFSET) - 6
             crop_height == HEIGHT - (2 * BOX_OFFSET) - 4
         IN  <<"-blur 0x20",
               "-gravity center",
               "\\( " \o Quoted(PathStr(s.source_file))>>
             \o ResizeAndStyle(s)
             \o <<"-crop " \o ToString(crop_width) \o "x"
                      \o ToString(crop_height) \o "+0+0",
                  "+repage \\)",
                  "-composite">>

TintedFramePlus_index_text_commands(s, e) ==
    IF \/ (s.top_element # "index" /\ s.bottom_element # "index")
       \/ (s.hide_season_text /\ s.hide_episode_text)
    THEN <<>>
    ELSE LET index_text ==
                 IF s.hide_season_text THEN s.episode_text
                 ELSE IF s.hide_episode_text THEN s.season_text
                 ELSE s.season_text \o " " \o s.separator \o " "
                          \o s.episode_text
             vertical_shift ==
                 (IF s.top_element = "index" THEN -708 ELSE 722)
                     + s.episode_text_vertical_shift
         IN  <<"-background transparent",
               "\\( -font " \o Quoted(PathStr(s.episode_text_font)),
               "+kerning +interline-spacing +interword-spacing",
               "-pointsize " \o Dec(60 * s.episode_text_font_size),
               "-fill " \o Quoted(s.episode_text_color),
               "label:" \o Quoted(index_text),
               "\\( +clone",
               "-shadow 80x3+6+6 \\)",
               "+swap",
               "-layers merge",
               "+repage \\)",
               "-gravity center",
               "-geometry +0" \o Signed(vertical_shift),
               "-composite">>

TintedFramePlus_logo_commands(s, e) ==
    IF \/ (/\ s.top_element # "logo"
           /\ s.middle_element # "logo"
           /\ s.bottom_element # "logo")
       \/ s.logo \notin e.fs
    THEN <<>>
    ELSE LET vertical_shift ==
                 IF s.top_element = "logo" THEN -720
                 ELSE IF s.middle_element = "logo" THEN 0
                 ELSE IF s.bottom_element = "logo" THEN 700
                 ELSE 0
             logo_height ==
                 IF s.middle_element = "logo" THEN 350 * s.logo_size
                 ELSE 150 * s.logo_size
             resize_command ==
                 IF s.middle_element = "logo"
                 THEN <<"-resize x" \o Dec(logo_height),
                        "-resize " \o Dec(2500 * s.logo_size) \o "x"
                            \o Dec(logo_height) \o "\\>">>
                 ELSE <<"-resize x" \o Dec(logo_height)>>
         IN  <<"\\( " \o Quoted(PathStr(s.logo))>>
             \o resize_command
             \o <<"\\) -gravity center",
                  "-geometry +0" \o Signed(vertical_shift),
                  "-composite">>

\* width of the element that interrupts a frame edge: the measured index
\* text, or the measured logo scaled to a height of 150 * logo_size (the
\* logos measured here scale to whole pixels)
TintedFramePlus_element_width(element, s, e) ==
    IF element = "index"
    THEN e.text_width
    ELSE (e.logo_dims[1] * 150 * s.logo_size) \div (e.logo_dims[2] * 100)

\* _frame_top_commands drawing the whole edge when the gap does not fit
TintedFramePlus_frame_top_commands_whole_when_wide(s, e) ==
    LET INSET == BOX_OFFSET
        TopLeft == Coordinate(2 * INSET, INSET)
        TopRight == Coordinate(2 * (WIDTH - INSET), INSET + s.frame_width)
        margin == 25
        element_width == TintedFramePlus_element_width(s.top_element, s, e)
        left_box_x2 == WIDTH - element_width - 2 * margin
        right_box_x2 == WIDTH + element_width + 2 * margin
    IN  IF \/ s.top_element = "omit"
           \/ (/\ s.top_element = "index"
               /\ s.hide_season_text /\ s.hide_episode_text)
           \/ (s.top_element = "logo" /\ s.logo \notin e.fs)
        THEN <<Rectangle(TopLeft, TopRight)>>
        ELSE IF \/ left_box_x2 < 2 * INSET
                \/ right_box_x2 > 2 * (WIDTH - INSET)
        THEN <<Rectangle(TopLeft, TopRight)>>
        ELSE <<Rectangle(TopLeft,
                         Coordinate(left_box_x2, INSET + s.frame_width)),
               Rectangle(Coordinate(right_box_x2, INSET), TopRight)>>

TintedFramePlus_frame_top_commands(s, e) ==
    LET INSET == BOX_OFFSET
        TopLeft == Coordinate(2 * INSET, INSET)
        TopRight == Coordinate(2 * (WIDTH - INSET), INSET + s.frame_width)
        margin == 25
        element_width == TintedFramePlus_element_width(s.top_element, s, e)
        left_box_x2 == WIDTH - element_width - 2 * margin
        right_box_x2 == WIDTH + element_width + 2 * margin
    IN  IF \/ s.top_element = "omit"
           \/ (/\ s.top_element = "index"
               /\ s.hide_season_text /\ s.hide_episode_text)
           \/ (s.top_element = "logo" /\ s.logo \notin e.fs)
        THEN <<Rectangle(TopLeft, TopRight)>>
        ELSE IF \/ left_box_x2 < 2 * INSET
                \/ right_box_x2 > 2 * (WIDTH - INSET)
        THEN <<>>
        ELSE <<Rectangle(TopLeft,
                         Coordinate(left_box_x2, INSET + s.frame_width)),
               Rectangle(Coordinate(right_box_x2, INSET), TopRight)>>

\* _frame_bottom_commands leaving out the margin right of the element
TintedFramePlus_frame_bottom_commands_one_margin(s, e) ==
    LET INSET == BOX_OFFSET
        BottomRight == Coordinate(2 * (WIDTH - INSET), HEIGHT - INSET)
        margin == 25
        element_width ==
            TintedFramePlus_element_width(s.bottom_element, s, e)
        left_box_x2 == WIDTH - element_width - 2 * margin
        right_box_x2 == WIDTH + element_width
    IN  IF \/ s.bottom_element = "omit"
           \/ (/\ s.bottom_element = "index"
               /\ s.hide_season_text /\ s.hide_episode_text)
           \/ (s.bottom_element = "logo" /\ s.logo \notin e.fs)
        THEN <<Rectangle(Coordinate(2 * INSET,
                                    HEIGHT - INSET - s.frame_width),
                         BottomRight)>>
        ELSE IF \/ left_box_x2 < 2 * INSET
                \/ right_box_x2 > 2 * (WIDTH - INSET)
        THEN <<>>
        ELSE <<Rectangle(Coordinate(2 * INSET,
                                    HEIGHT - INSET - s.frame_width),
                         Coordinate(left_box_x2, HEIGHT - INSET)),
               Rectangle(Coordinate(right_box_x2,
                                    HEIGHT - INSET - s.frame_width),
                         BottomRight)>>

TintedFramePlus_frame_bottom_commands(s, e) ==
    LET INSET == BOX_OFFSET
        BottomRight == Coordinate(2 * (WIDTH - INSET), HEIGHT - INSET)
        margin == 25
        element_width ==
            TintedFramePlus_element_width(s.bottom_element, s, e)
        left_box_x2 == WIDTH - element_width - 2 * margin
        right_box_x2 == WIDTH + element_width + 2 * margin
    IN  IF \/ s.bottom_element = "omit"
           \/ (/\ s.bottom_element = "index"
               /\ s.hide_season_text /\ s.hide_episode_text)
           \/ (s.bottom_element = "logo" /\ s.logo \notin e.fs)
        THEN <<Rectangle(Coordinate(2 * INSET,
                                    HEIGHT - INSET - s.frame_width),
                         BottomRight)>>
        ELSE IF \/ left_box_x2 < 2 * INSET
                \/ right_box_x2 > 2 * (WIDTH - INSET)
        THEN <<>>
        ELSE <<Rectangle(Coordinate(2 * INSET,
                                    HEIGHT - INSET - s.frame_width),
                         Coordinate(left_box_x2, HEIGHT - INSET)),
               Rectangle(Coordinate(right_box_x2,
                                    HEIGHT - INSET - s.frame_width),
                         BottomRight)>>

TintedFramePlus_frame_commands(s, e) ==
    LET INSET == BOX_OFFSET
        TopLeft == Coordinate(2 * INSET, INSET)
        BottomLeft == Coordinate(2 * (INSET + s.frame_width), HEIGHT - INSET)
        BottomRight == Coordinate(2 * (WIDTH - INSET), HEIGHT - INSET)
        top == TintedFramePlus_frame_top_commands(s, e)
        left == <<Rectangle(TopLeft, BottomLeft)>>
        right == <<Rectangle(
                     Coordinate(2 * (WIDTH - INSET - s.frame_width), INSET),
                     BottomRight)>>
        bottom == TintedFramePlus_frame_bottom_commands(s, e)
    IN  <<"\\( -size " \o TITLE_CARD_SIZE,
          "xc:transparent",
          "+stroke",
          "-fill " \o Quoted(s.frame_color)>>
        \o top \o left \o right \o bottom
        \o <<"\\( +clone",
             "-shadow 80x3+4+4 \\)",
             "+swap",
             "-layers merge",
             "+repage \\)",
             "-geometry +0+0",
             "-composite">>

TintedFramePlus_black_title_commands(s, e) ==
    IF s.font_stroke_width = 0 THEN <<>>
    ELSE LET stroke_width == 3 * s.font_stroke_width
             vertical_shift == 245 + s.font_vertical_shift
         IN  <<"-fill " \o Quoted(s.stroke_color),
               "-stroke " \o Quoted(s.stroke_color),
               "-strokewidth " \o Dec(stroke_width),
               "-annotate +0+" \o ToString(vertical_shift) \o " "
                   \o Quoted(s.title_text)>>

\* the command create() builds: one string, the parts joined by spaces
TintedFramePlus_command(s, e) ==
    LET font_size == (15741 * s.font_size) \div 100
        interline_spacing == -22 + s.font_interline_spacing
        interword_spacing == 50 + s.font_interword_spacing
        kerning == (-125 * s.font_kerning) \div 100
        vertical_shift == 245 + s.font_vertical_shift
    IN  Join(" ",
            <<"convert " \o Quoted(PathStr(s.source_file))>>
            \o ResizeAndStyle(s)
            \o TintedFramePlus_blur_commands(s, e)
            \o <<"-gravity south",
                 "-font " \o Quoted(PathStr(s.font_file)),
                 "-kerning " \o Dec(kerning),
                 "-interword-spacing " \o ToString(interword_spacing),
                 "-interline-spacing " \o ToString(interline_spacing),
                 "-pointsize " \o Dec(font_size)>>
            \o TintedFramePlus_black_title_commands(s, e)
            \o <<"-fill " \o Quoted(s.font_color),
                 "-annotate +0+" \o ToString(vertical_shift) \o " "
                     \o Quoted(s.title_text)>>
            \o TintedFramePlus_index_text_commands(s, e)
            \o TintedFramePlus_logo_commands(s, e)
            \o TintedFramePlus_frame_commands(s, e)
            \o AddOverlayMask(s, e)
            \o ResizeOutput
            \o <<Quoted(PathStr(s.output_file))>>)

(***************************************************************************)
(* DawnTitleCard.                                                          *)
(***************************************************************************)
Dawn_OVERLAY_PLAIN == RemoteFile("Supremicus", "ref/overlays/overlay_plain.png")
Dawn_OVERLAY_PLAIN_BEZEL == RemoteFile("Supremicus", "ref/overlays/overlay_plain_bezel.png")
Dawn_OVERLAY_PLAY == RemoteFile("Supremicus", "ref/overlays/overlay_play.png")
Dawn_OVERLAY_PLAY_BEZEL == RemoteFile("Supremicus", "ref/overlays/overlay_play_bezel.png")
Dawn_OVERLAY_REWIND == RemoteFile("Supremicus", "ref/overlays/overlay_rewind.png")
Dawn_OVERLAY_REWIND_BEZEL == RemoteFile("Supremicus", "ref/overlays/overlay_rewind_bezel.png")
Dawn_GRADIENT_IMAGE == RemoteFile("Supremicus", "ref/overlays/gradient.png")

DawnTitleCard_init(v) ==
    [cls |-> "DawnTitleCard",
     blur |-> v.blur,
     grayscale |-> v.grayscale,
     source_file |-> v.source_file,
     output_file |-> v.card_file,
     title_text |-> TitleStr(v.title_text),
     season_text |-> v.season_text,
     episode_text |-> v.episode_text,
     hide_season_text |-> v.hide_season_text,
     hide_episode_text |-> v.hide_episode_text,
     line_count |-> Len(v.title_text),
     font_color |-> v.font_color,
     font_file |-> v.font_file,
     font_kerning |-> v.font_kerning,
     font_interline_spacing |-> v.font_interline_spacing,
     font_interword_spacing |-> v.font_interword_spacing,
     font_size |-> v.font_size,
     font_stroke_width |-> v.font_stroke_width,
     font_vertical_shift |-> v.font_vertical_shift,
     stroke_color |-> v.stroke_color,
     title_text_horizontal_shift |-> v.title_text_horizontal_shift,
     episode_text_vertical_shift |-> v.episode_text_vertical_shift,
     episode_text_font |-> v.episode_text_font,
     episode_text_font_size |-> v.episode_text_font_size,
     episode_text_color |-> v.episode_text_color,
     episode_text_stroke_color |-> v.episode_text_stroke_color,
     episode_text_kerning |-> v.episode_text_kerning,
     separator |-> v.separator,
     h_align |-> v.h_align,
     crt_overlay |-> v.crt_overlay,
     crt_state_overlay |-> v.crt_state_overlay,
     omit_gradient |-> v.omit_gradient]

DawnTitleCard_index_text_commands(s, e) ==
    IF s.hide_season_text /\ s.hide_episode_text THEN <<>>
    ELSE LET index_text ==
                 IF s.hide_season_text THEN s.episode_text
                 ELSE IF s.hide_episode_text THEN s.season_text
                 ELSE s.season_text \o " " \o s.separator \o " "
                          \o s.episode_text
             gravity == IF s.h_align = "left" THEN "southwest"
                        ELSE IF s.h_align = "center" THEN "south"
                        ELSE "southeast"
             x == IF s.h_align = "left" THEN 200
                  ELSE IF s.h_align = "center" THEN 0
                  ELSE 200
             stroke_width == 4 * s.font_stroke_width
             offset == (124 * s.font_size) * s.line_count
             vertical_shift == 50 + s.font_vertical_shift
             y == 100 * (80 + vertical_shift) + offset
                      + 100 * s.episode_text_vertical_shift
             annotate == "-annotate " \o Signed(x) \o SignedDec(y) \o " "
                             \o Quoted(index_text)
         IN  <<"-background transparent",
               "-kerning " \o ToString(s.episode_text_kerning),
               "-pointsize " \o Dec(60 * s.episode_text_font_size),
               "-interword-spacing 14.5",
               "-gravity " \o gravity,
               "-font " \o Quoted(PathStr(s.episode_text_font)),
               "-fill " \o s.episode_text_stroke_color,
               "-stroke " \o s.episode_text_stroke_color,
               "-strokewidth " \o Dec(stroke_width),
               annotate,
               "-fill " \o Quoted(s.episode_text_color),
               "-stroke " \o Quoted(s.episode_text_color),
               "-strokewidth 0",
               annotate>>

DawnTitleCard_title_text_global_effects(s, e) ==
    LET gravity == IF s.h_align = "left" THEN "southwest"
                   ELSE IF s.h_align = "center" THEN "south"
                   ELSE "southeast"
        font_size == 124 * s.font_size
        interline_spacing == -20 + s.font_interline_spacing
        interword_spacing == 50 + s.font_interword_spacing
        kerning == (-125 * s.font_kerning) \div 100
    IN  <<"-font " \o Quoted(PathStr(s.font_file)),
          "-kerning " \o Dec(kerning),
          "-interline-spacing " \o ToString(interline_spacing),
          "-interword-spacing " \o ToString(interword_spacing),
          "-pointsize " \o Dec(font_size),
          "-gravity " \o gravity>>

DawnTitleCard_title_text_black_stroke(s, e) ==
    IF s.font_stroke_width = 0 THEN <<>>
    ELSE LET stroke_width == 4 * s.font_stroke_width
         IN  <<"-fill " \o Quoted(s.stroke_color),
               "-stroke " \o Quoted(s.stroke_color),
               "-strokewidth " \o Dec(stroke_width)>>

DawnTitleCard_title_text_effects(s, e) ==
    <<"-fill " \o Quoted(s.font_color),
      "-stroke " \o Quoted(s.font_color),
      "-strokewidth 0">>

DawnTitleCard_title_text_commands(s, e) ==
    IF s.title_text = "" THEN <<>>
    ELSE LET x == IF s.h_align = "left"
                  THEN 200 + s.title_text_horizontal_shift
                  ELSE IF s.h_align = "center" THEN 0
                  ELSE 200 + s.title_text_horizontal_shift
             vertical_shift == 50 + s.font_vertical_shift
             y == 80 + vertical_shift
             annotate == "-annotate " \o Signed(x) \o Signed(y) \o " "
                             \o Quoted(s.title_text)
         IN  DawnTitleCard_title_text_global_effects(s, e)
             \o DawnTitleCard_title_text_black_stroke(s, e)
             \o <<annotate>>
             \o DawnTitleCard_title_text_effects(s, e)
             \o <<annotate>>

DawnTitleCard_add_crt_overlay_commands(s, e) ==
    IF s.crt_overlay = None THEN <<>>
    ELSE LET crt_overlay_image ==
                 IF s.crt_overlay = "nobezel"
                 THEN IF s.crt_state_overlay /\ ~ e.watched
                      THEN Dawn_OVERLAY_PLAY
                      ELSE IF s.crt_state_overlay /\ e.watched
                      THEN Dawn_OVERLAY_REWIND
                      ELSE Dawn_OVERLAY_PLAIN
                 ELSE IF s.crt_overlay = "bezel"
                 THEN IF s.crt_state_overlay /\ ~ e.watched
                      THEN Dawn_OVERLAY_PLAY_BEZEL
                      ELSE IF s.crt_state_overlay /\ e.watched
                      THEN Dawn_OVERLAY_REWIND_BEZEL
                      ELSE Dawn_OVERLAY_PLAIN_BEZEL
                 ELSE Dawn_OVERLAY_PLAIN
         IN  <<Quoted(PathStr(crt_overlay_image)),
               "-composite">>

\* gradient_commands overlaying the gradient whatever omit_gradient is
DawnTitleCard_gradient_commands_always(s, e) ==
    <<Quoted(PathStr(Dawn_GRADIENT_IMAGE)),
      "-composite">>

DawnTitleCard_gradient_commands(s, e) ==
    IF s.omit_gradient THEN <<>>
    ELSE <<Quoted(PathStr(Dawn_GRADIENT_IMAGE)),
           "-composite">>

\* the command create() builds: the list of its parts
DawnTitleCard_command(s, e) ==
    <<"convert " \o Quoted(PathStr(s.source_file))>>
    \o ResizeAndStyle(s)
    \o DawnTitleCard_gradient_commands(s, e)
    \o DawnTitleCard_index_text_commands(s, e)
    \o DawnTitleCard_title_text_commands(s, e)
    \o DawnTitleCard_add_crt_overlay_commands(s, e)
    \o AddOverlayMask(s, e)
    \o ResizeOutput
    \o <<Quoted(PathStr(s.output_file))>>

\* the fallback season title of an episode; the text returned for a season
\* other than 0 is a plain string literal, braces included
DawnTitleCard_SEASON_TEXT_FORMATTER(episode_info) ==
    IF episode_info.season_number = 0
    THEN "Specials"
    ELSE "S{season_number:02}"

(***************************************************************************)
(* HorizonTitleCard.                                                       *)
(***************************************************************************)
Horizon_OVERLAY_PLAIN == RemoteFile("Supremicus", "ref/overlays/overlay_plain.png")
Horizon_OVERLAY_PLAIN_BEZEL == RemoteFile("Supremicus", "ref/overlays/overlay_plain_bezel.png")
Horizon_OVERLAY_PLAY == RemoteFile("Supremicus", "ref/overlays/overlay_play.png")
Horizon_OVERLAY_PLAY_BEZEL == RemoteFile("Supremicus", "ref/overlays/overlay_play_bezel.png")
Horizon_OVERLAY_REWIND == RemoteFile("Supremicus", "ref/overlays/overlay_rewind.png")
Horizon_OVERLAY_REWIND_BEZEL == RemoteFile("Supremicus", "ref/overlays/overlay_rewind_bezel.png")
Horizon_GRADIENT_IMAGE ==
    RemoteFile("Supremicus", "ref/overlays/radial_gradient.png")
Horizon_ALIGNMENT_OVERLAY_IMAGE ==
    RemoteFile("Supremicus", "ref/overlays/overlay_alignment.png")

\* the symbol names the add_symbol_image_commands table knows
BuiltInSymbols ==
    {"acolyte", "ahsoka", "andor", "bobafett", "mandalorian", "obiwan",
     "witcher"}

Horizon_SYMBOL_IMAGE(name) == RemoteFile("Supremicus", "ref/symbols/" \o name \o ".png")

HorizonTitleCard_init(v) ==
    [cls |-> "HorizonTitleCard",
     blur |-> v.blur,
     grayscale |-> v.grayscale,
     source_file |-> v.source_file,
     output_file |-> v.card_file,
     title_text |-> TitleStr(v.title_text),
     season_text |-> v.season_text,
     episode_text |-> v.episode_text,
     hide_season_text |-> v.hide_season_text,
     hide_episode_text |-> v.hide_episode_text,
     line_count |-> Len(v.title_text),
     font_color |-> v.font_color,
     font_file |-> v.font_file,
     font_kerning |-> v.font_kerning,
     font_interline_spacing |-> v.font_interline_spacing,
     font_interword_spacing |-> v.font_interword_spacing,
     font_size |-> v.font_size,
     font_stroke_width |-> v.font_stroke_width,
     font_vertical_shift |-> v.font_vertical_shift,
     stroke_color |-> v.stroke_color,
     episode_text_vertical_shift |-> v.episode_text_vertical_shift,
     episode_text_font |-> v.episode_text_font,
     episode_text_font_size |-> v.episode_text_font_size,
     episode_text_color |-> v.episode_text_color,
     episode_text_stroke_color |-> v.episode_text_stroke_color,
     episode_text_kerning |-> v.episode_text_kerning,
     separator |-> v.separator,
     h_align |-> v.h_align,
     logo |-> v.logo_file,
     symbol |-> v.symbol,
     alignment_overlay |-> v.alignment_overlay,
     crt_overlay |-> v.crt_overlay,
     crt_state_overlay |-> v.crt_state_overlay,
     omit_gradient |-> v.omit_gradient]

HorizonTitleCard_index_text_commands(s, e) ==
    IF s.hide_season_text /\ s.hide_episode_text THEN <<>>
    ELSE LET index_text ==
                 IF s.hide_season_text THEN s.episode_text
                 ELSE IF s.hide_episode_text THEN s.season_text
                 ELSE s.season_text \o " " \o s.separator \o " "
                          \o s.episode_text
             stroke_width == 4 * s.font_stroke_width
             offset == (62 * s.font_size) * s.line_count
             y == 100 * 900 - offset + 100 * s.episode_text_vertical_shift
                      - 100 * 30
             x == IF s.h_align = "left" THEN -700 ELSE 700
             annotate == "-annotate " \o Signed(x) \o SignedDec(y) \o " "
                             \o Quoted(index_text)
         IN  <<"-background transparent",
               "-kerning " \o ToString(s.episode_text_kerning),
               "-pointsize " \o Dec(60 * s.episode_text_font_size),
               "-interword-spacing 14.5",
               "-gravity north",
               "-font " \o Quoted(PathStr(s.episode_text_font)),
               "-fill " \o s.episode_text_stroke_color,
               "-stroke " \o s.episode_text_stroke_color,
               "-strokewidth " \o Dec(stroke_width),
               annotate,
               "-fill " \o Quoted(s.episode_text_color),
               "-stroke " \o Quoted(s.episode_text_color),
               "-strokewidth 0",
               annotate>>

HorizonTitleCard_title_text_global_effects(s, e) ==
    LET font_size == 124 * s.font_size
        interline_spacing == -26 + s.font_interline_spacing
        interword_spacing == 50 + s.font_interword_spacing
        kerning == (-125 * s.font_kerning) \div 100
    IN  <<"-font " \o Quoted(PathStr(s.font_file)),
          "-kerning " \o Dec(kerning),
          "-interline-spacing " \o ToString(interline_spacing),
          "-interword-spacing " \o ToString(interword_spacing),
          "-pointsize " \o Dec(font_size),
          "-gravity north">>

HorizonTitleCard_title_text_black_stroke(s, e) ==
    IF s.font_stroke_width = 0 THEN <<>>
    ELSE LET stroke_width == 4 * s.font_stroke_width
         IN  <<"-fill " \o Quoted(s.stroke_color),
               "-stroke " \o Quoted(s.stroke_color),
               "-strokewidth " \o Dec(stroke_width)>>

HorizonTitleCard_title_text_commands(s, e) ==
    IF s.title_text = "" THEN <<>>
    ELSE LET font_size == 124 * s.font_size
             offset == (font_size \div 2) * s.line_count
             vertical_shift == 42 + s.font_vertical_shift
             x == IF s.h_align = "left" THEN -700 ELSE 700
             y == 100 * 900 - offset + 100 * vertical_shift - 100 * 12
             annotate == "-annotate " \o Signed(x) \o SignedDec(y) \o " "
                             \o Quoted(s.title_text)
         IN  HorizonTitleCard_title_text_global_effects(s, e)
             \o HorizonTitleCard_title_text_black_stroke(s, e)
             \o <<annotate,
                  "-fill " \o Quoted(s.font_color),
                  "-stroke " \o Quoted(s.font_color),
                  "-strokewidth 0",
                  annotate>>

\* SYMBOLS.get(self.symbol): the image of the symbol, None for an unknown name
HorizonTitleCard_SYMBOLS_get(s) ==
    IF s.symbol \in BuiltInSymbols THEN Horizon_SYMBOL_IMAGE(s.symbol)
    ELSE IF s.symbol = "logo" THEN s.logo
    ELSE Path(None, None)

HorizonTitleCard_add_symbol_image_commands(s, e) ==
    LET symbol_image == HorizonTitleCard_SYMBOLS_get(s)
        exists == IF s.symbol \in BuiltInSymbols THEN e.remote
                  ELSE symbol_image \in e.fs
        x == IF s.h_align = "left" THEN -700 ELSE 700
    IN  IF symbol_image = Path(None, None) \/ ~ exists THEN <<>>
        ELSE <<"-gravity center",
               "\\( " \o Quoted(PathStr(symbol_image)),
               "-resize x850",
               "-resize 850x850\\>",
               "\\) -geometry " \o Signed(x) \o "+0",
               "-composite">>

HorizonTitleCard_add_crt_overlay_commands(s, e) ==
    IF s.crt_overlay = None THEN <<>>
    ELSE LET crt_overlay_image ==
                 IF s.crt_overlay = "nobezel"
                 THEN IF s.crt_state_overlay /\ ~ e.watched
                      THEN Horizon_OVERLAY_PLAY
                      ELSE IF s.crt_state_overlay /\ e.watched
                      THEN Horizon_OVERLAY_REWIND
                      ELSE Horizon_OVERLAY_PLAIN
                 ELSE IF s.crt_overlay = "bezel"
                 THEN IF s.crt_state_overlay /\ ~ e.watched
                      THEN Horizon_OVERLAY_PLAY_BEZEL
                      ELSE IF s.crt_state_overlay /\ e.watched
                      THEN Horizon_OVERLAY_REWIND_BEZEL
                      ELSE Horizon_OVERLAY_PLAIN_BEZEL
                 ELSE Horizon_OVERLAY_PLAIN
         IN  <<Quoted(PathStr(crt_overlay_image)),
               "-composite">>

HorizonTitleCard_gradient_commands(s, e) ==
    IF s.omit_gradient THEN <<>>
    ELSE LET rotation == IF s.h_align = "left" THEN 0 ELSE 180
         IN  <<"\\( " \o Quoted(PathStr(Horizon_GRADIENT_IMAGE)),
               "-rotate " \o ToString(rotation) \o " \\)",
               "-composite">>

HorizonTitleCard_add_alignment_overlay(s, e) ==
    IF ~ s.alignment_overlay THEN <<>>
    ELSE <<Quoted(PathStr(Horizon_ALIGNMENT_OVERLAY_IMAGE)),
           "-composite">>

\* the command create() builds: the list of its parts
HorizonTitleCard_command(s, e) ==
    <<"convert " \o Quoted(PathStr(s.source_file))>>
    \o ResizeAndStyle(s)
    \o HorizonTitleCard_gradient_commands(s, e)
    \o HorizonTitleCard_add_symbol_image_commands(s, e)
    \o HorizonTitleCard_index_text_commands(s, e)
    \o HorizonTitleCard_title_text_commands(s, e)
    \o HorizonTitleCard_add_crt_overlay_commands(s, e)
    \o AddOverlayMask(s, e)
    \o HorizonTitleCard_add_alignment_overlay(s, e)
    \o ResizeOutput
    \o <<Quoted(PathStr(s.output_file))>>

HorizonTitleCard_SEASON_TEXT_FORMATTER(episode_info) ==
    IF episode_info.season_number = 0
    THEN "Specials"
    ELSE "S{season_number:02}"

(***************************************************************************)
(* SlimTitleCard.                                                          *)
(***************************************************************************)
Slim_GRADIENT_IMAGE == RemoteFile("Yozora", "ref/slim/GRADIENT.png")
SEASON_COUNT_FONT == RemoteFile("Yozora", "ref/slim/Comfortaa-SemiBold.ttf")
EPISODE_COUNT_FONT == RemoteFile("Yozora", "ref/slim/Comfortaa-Regular.ttf")
SERIES_COUNT_TEXT_COLOR == "#a5a5a5"

SlimTitleCard_init(v) ==
    [cls |-> "SlimTitleCard",
     blur |-> v.blur,
     grayscale |-> v.grayscale,
     source_file |-> v.source_file,
     output_file |-> v.card_file,
     title_text |-> TitleStr(v.title_text),
     season_text |-> v.season_text,
     episode_text |-> v.episode_text,
     hide_season_text |-> v.hide_season_text,
     hide_episode_text |-> v.hide_episode_text,
     font_color |-> v.font_color,
     font_file |-> v.font_file,
     font_interline_spacing |-> v.font_interline_spacing,
     font_kerning |-> v.font_kerning,
     font_size |-> v.font_size,
     font_stroke_width |-> v.font_stroke_width,
     font_vertical_shift |-> v.font_vertical_shift,
     omit_gradient |-> v.omit_gradient]

SlimTitleCard_title_text_global_effects(s) ==
    LET font_size == (15741 * s.font_size) \div 100
        interline_spacing == -22 + s.font_interline_spacing
        kerning == (-125 * s.font_kerning) \div 100
    IN  <<"-font " \o Quoted(PathStr(s.font_file)),
          "-kerning " \o Dec(kerning),
          "-interword-spacing 50",
          "-interline-spacing " \o ToString(interline_spacing),
          "-pointsize " \o Dec(font_size),
          "-gravity south">>

SlimTitleCard_title_text_black_stroke(s) ==
    LET stroke_width == s.font_stroke_width
    IN  <<"-fill black",
          "-stroke black",
          "-strokewidth " \o Dec(stroke_width)>>

SlimTitleCard_series_count_text_global_effects ==
    <<"-kerning 5.42",
      "-pointsize 67.75">>

SlimTitleCard_series_count_text_black_stroke ==
    <<"-fill black",
      "-stroke black",
      "-strokewidth 6">>

SlimTitleCard_series_count_text_effects ==
    <<"-fill " \o Quoted(SERIES_COUNT_TEXT_COLOR),
      "-stroke " \o Quoted(SERIES_COUNT_TEXT_COLOR),
      "-strokewidth 0.75">>

SlimTitleCard_title_text_command(s, e) ==
    LET vertical_shift == 100 + s.font_vertical_shift
        annotate == "-annotate +0+" \o ToString(vertical_shift) \o " "
                        \o Quoted(s.title_text)
    IN  SlimTitleCard_title_text_global_effects(s)
        \o SlimTitleCard_title_text_black_stroke(s)
        \o <<annotate,
             "-fill " \o Quoted(s.font_color),
             annotate>>

SlimTitleCard_index_text_command(s, e) ==
    LET single(font, text) ==
            SlimTitleCard_series_count_text_global_effects
            \o <<"-font " \o Quoted(PathStr(font)),
                 "-gravity center">>
            \o SlimTitleCard_series_count_text_black_stroke
            \o <<"-annotate +0+697.2 " \o Quoted(text)>>
            \o SlimTitleCard_series_count_text_effects
            \o <<"-annotate +0+697.2 " \o Quoted(text)>>
        both(effects, smush) ==
            <<"\\(">>
            \o SlimTitleCard_series_count_text_global_effects
            \o effects
            \o <<"-font " \o Quoted(PathStr(SEASON_COUNT_FONT)),
                 "label:" \o Quoted(s.season_text),
                 "label:" \o Quoted(Bullet \o " "),
                 "-font " \o Quoted(PathStr(EPISODE_COUNT_FONT)),
                 "label:" \o Quoted(s.episode_text),
                 "+smush " \o ToString(smush),
                 "\\)",
                 "-geometry +0+35",
                 "-composite">>
    IN  IF s.hide_season_text /\ s.hide_episode_text THEN <<>>
        ELSE IF s.hide_season_text
        THEN single(EPISODE_COUNT_FONT, s.episode_text)
        ELSE IF s.hide_episode_text
        THEN single(SEASON_COUNT_FONT, s.season_text)
        ELSE <<"-background transparent",
               "+interword-spacing",
               "-gravity south">>
             \o both(SlimTitleCard_series_count_text_black_stroke, 15)
             \o both(SlimTitleCard_series_count_text_effects, 18)

\* create() with the output path no longer the last part of the command
SlimTitleCard_command_output_first(s, e) ==
    <<"convert " \o Quoted(PathStr(s.source_file))>>
    \o ResizeAndStyle(s)
    \o (IF s.omit_gradient THEN <<>>
        ELSE <<Quoted(PathStr(Slim_GRADIENT_IMAGE)), "-composite">>)
    \o SlimTitleCard_title_text_command(s, e)
    \o SlimTitleCard_index_text_command(s, e)
    \o AddOverlayMask(s, e)
    \o <<Quoted(PathStr(s.output_file))>>
    \o ResizeOutput

\* the command create() builds: the list of its parts
SlimTitleCard_command(s, e) ==
    LET gradient_command ==
            IF s.omit_gradient THEN <<>>
            ELSE <<Quoted(PathStr(Slim_GRADIENT_IMAGE)),
                   "-composite">>
    IN  <<"convert " \o Quoted(PathStr(s.source_file))>>
        \o ResizeAndStyle(s)
        \o gradient_command
        \o SlimTitleCard_title_text_command(s, e)
        \o SlimTitleCard_index_text_command(s, e)
        \o AddOverlayMask(s, e)
        \o ResizeOutput
        \o <<Quoted(PathStr(s.output_file))>>

(***************************************************************************)
(* The card object of each class: construction, properties, create().      *)
(***************************************************************************)
NoCard == [cls |-> "none"]

\* CardClass(**values)
CardInit(v) ==
    CASE v.cls = "TintedFramePlus" -> TintedFramePlus_init(v)
      [] v.cls = "DawnTitleCard" -> DawnTitleCard_init(v)
      [] v.cls = "HorizonTitleCard" -> HorizonTitleCard_init(v)
      [] OTHER -> SlimTitleCard_init(v)

\* the command create() builds from the card's attributes and what it observes
Command(s, e) ==
    CASE s.cls = "TintedFramePlus" -> TintedFramePlus_command(s, e)
      [] s.cls = "DawnTitleCard" -> DawnTitleCard_command(s, e)
      [] s.cls = "HorizonTitleCard" -> HorizonTitleCard_command(s, e)
      [] OTHER -> SlimTitleCard_command(s, e)

\* the command properties of a class
Properties(c) ==
    CASE c = "TintedFramePlus" ->
           {"blur_commands", "index_text_commands", "logo_commands",
            "frame_commands", "black_title_commands"}
      [] c = "DawnTitleCard" ->
           {"index_text_commands", "title_text_commands",
            "add_crt_overlay_commands", "gradient_commands"}
      [] c = "HorizonTitleCard" ->
           {"index_text_commands", "title_text_commands",
            "add_symbol_image_commands", "add_crt_overlay_commands",
            "gradient_commands", "add_alignment_overlay"}
      [] OTHER -> {"title_text_command", "index_text_command"}

\* the value of one command property
Property(s, e, name) ==
    CASE s.cls = "TintedFramePlus" ->
           (CASE name = "blur_commands" -> TintedFramePlus_blur_commands(s, e)
              [] name = "index_text_commands" ->
                   TintedFramePlus_index_text_commands(s, e)
              [] name = "logo_commands" -> TintedFramePlus_logo_commands(s, e)
              [] name = "frame_commands" ->
                   TintedFramePlus_frame_commands(s, e)
              [] OTHER -> TintedFramePlus_black_title_commands(s, e))
      [] s.cls = "DawnTitleCard" ->
           (CASE name = "index_text_commands" ->
                   DawnTitleCard_index_text_commands(s, e)
              [] name = "title_text_commands" ->
                   DawnTitleCard_title_text_commands(s, e)
              [] name = "add_crt_overlay_commands" ->
                   DawnTitleCard_add_crt_overlay_commands(s, e)
              [] OTHER -> DawnTitleCard_gradient_commands(s, e))
      [] s.cls = "HorizonTitleCard" ->
           (CASE name = "index_text_commands" ->
                   HorizonTitleCard_index_text_commands(s, e)
              [] name = "title_text_commands" ->
                   HorizonTitleCard_title_text_commands(s, e)
              [] name = "add_symbol_image_commands" ->
                   HorizonTitleCard_add_symbol_image_commands(s, e)
              [] name = "add_crt_overlay_commands" ->
                   HorizonTitleCard_add_crt_overlay_commands(s, e)
              [] name = "gradient_commands" ->
                   HorizonTitleCard_gradient_commands(s, e)
              [] OTHER -> HorizonTitleCard_add_alignment_overlay(s, e))
      [] OTHER ->
           (CASE name = "title_text_command" ->
                   SlimTitleCard_title_text_command(s, e)
              [] OTHER -> SlimTitleCard_index_text_command(s, e))

\* image_magick.run(command): the image tool receives the command
Run(log, command) == Append(log, command)

\* create() storing the scaled font size back into the card object
AfterCreate_scaled_font(s) == [s EXCEPT !.font_size = 2 * @]

\* what create() leaves of the card object: it assigns no attribute
AfterCreate(s) == s

(***************************************************************************)
(* Parameters and external facts the runs start from.                      *)
(***************************************************************************)
Given(allowed) == allowed \cup {Unset}

Colours(c) == {None, c}

FontColours == {"white", "red"}

\* TintedFramePlus: validation of the elements, the logo and the font
TintedFramePlusValidation ==
    \E t \in Given(TintedFramePlus_top_element),
       m \in Given(TintedFramePlus_middle_element),
       b \in Given(TintedFramePlus_bottom_element),
       f \in FontForms,
       files \in SUBSET {LogoFile, FullFont, BesideFont} :
        /\ params = [DefaultParams("TintedFramePlus") EXCEPT
                        !.top_element = t, !.middle_element = m,
                        !.bottom_element = b, !.episode_text_font = f]
        /\ env = [DefaultEnv EXCEPT !.fs = files \cup {TitleFontFile}]

\* TintedFramePlus: the colours given or left out
TintedFramePlusColours ==
    \E c \in FontColours,
       ec \in Colours("blue"), fc \in Colours("gold"),
       t \in Given(TintedFramePlus_top_element),
       logo \in BOOLEAN :
        /\ params = [DefaultParams("TintedFramePlus") EXCEPT
                        !.top_element = t, !.font_color = c,
                        !.episode_text_color = ec, !.frame_color = fc]
        /\ env = [DefaultEnv EXCEPT
                     !.fs = IF logo THEN FileUniverse
                            ELSE FileUniverse \ {LogoFile}]

\* TintedFramePlus: the elements on the frame and their measured sizes
TintedFramePlusLayout ==
    \E t \in TintedFramePlus_top_element,
       m \in TintedFramePlus_middle_element,
       b \in TintedFramePlus_bottom_element,
       h \in Hidden, be \in BOOLEAN, logo \in BOOLEAN,
       tw \in TextWidths, ld \in LogoDims :
        /\ params = [DefaultParams("TintedFramePlus") EXCEPT
                        !.top_element = t, !.middle_element = m,
                        !.bottom_element = b,
                        !.hide_season_text = h[1], !.hide_episode_text = h[2],
                        !.blur_edges = be]
        /\ env = [DefaultEnv EXCEPT
                     !.fs = IF logo THEN FileUniverse
                            ELSE FileUniverse \ {LogoFile},
                     !.text_width = tw, !.logo_dims = ld]

\* measured widths around the widest element a frame edge has room for
FrameWidths == TextWidths \cup {2779, 2780, 2781}

FrameLogoDims == LogoDims \cup {<<5560, 300>>}

LogoSizes == {50, 100, 150}

\* TintedFramePlus: the elements that interrupt the top and bottom edges
TintedFramePlusFrame ==
    \E t \in {"index", "logo"},
       b \in TintedFramePlus_bottom_element,
       tw \in FrameWidths, ld \in FrameLogoDims, ls \in LogoSizes :
        /\ params = [DefaultParams("TintedFramePlus") EXCEPT
                        !.top_element = t, !.bottom_element = b,
                        !.logo_size = ls]
        /\ env = [DefaultEnv EXCEPT !.text_width = tw, !.logo_dims = ld]

\* Dawn and Horizon: validation of the episode text font and the colours
FontValidation(c) ==
    \E f \in FontForms, fc \in FontColours,
       ec \in Colours("blue"), sc \in Colours("gray"),
       st \in {Unset, "navy"},
       files \in SUBSET {TitleFontFile, FullFont, BesideFont} :
        /\ params = [DefaultParams(c) EXCEPT
                        !.episode_text_font = f,
                        !.font_color = fc,
                        !.episode_text_color = ec,
                        !.episode_text_stroke_color = sc,
                        !.stroke_color = st]
        /\ env = [DefaultEnv EXCEPT !.fs = files]

\* Dawn: alignment, overlay and gradient extras
DawnExtras ==
    \E a \in Given(DawnTitleCard_h_align),
       crt \in {None, "nobezel", "bezel"},
       st \in Given(BoolForms), og \in Given(BoolForms),
       h \in Hidden, w \in BOOLEAN, mk \in BOOLEAN :
        /\ params = [DefaultParams("DawnTitleCard") EXCEPT
                        !.h_align = a, !.crt_overlay = crt,
                        !.crt_state_overlay = st, !.omit_gradient = og,
                        !.hide_season_text = h[1], !.hide_episode_text = h[2]]
        /\ env = [DefaultEnv EXCEPT !.watched = w, !.mask = mk]

\* Horizon: alignment and symbol extras, with every value the extras'
\* tooltips document
HorizonSymbols ==
    \E a \in Given({"left", "center", "right"}),
       sy \in {None, "logo"} \cup BuiltInSymbols \cup HorizonTitleCard_symbol,
       al \in BOOLEAN, logo \in BOOLEAN, rm \in BOOLEAN :
        /\ params = [DefaultParams("HorizonTitleCard") EXCEPT
                        !.h_align = a, !.symbol = sy,
                        !.alignment_overlay = al]
        /\ env = [DefaultEnv EXCEPT
                     !.fs = IF logo THEN FileUniverse
                            ELSE FileUniverse \ {LogoFile},
                     !.remote = rm]

\* Horizon: alignment, overlay and gradient extras, with every value the
\* extras' tooltips document
HorizonExtras ==
    \E a \in Given({"left", "center", "right"}),
       crt \in {None, "nobezel", "bezel"} \cup HorizonTitleCard_crt_overlay,
       st \in Given(BoolForms), og \in Given(BoolForms),
       w \in BOOLEAN, mk \in BOOLEAN :
        /\ params = [DefaultParams("HorizonTitleCard") EXCEPT
                        !.h_align = a, !.crt_overlay = crt,
                        !.crt_state_overlay = st, !.omit_gradient = og]
        /\ env = [DefaultEnv EXCEPT !.watched = w, !.mask = mk]

\* Slim: gradient, hidden texts, style, title lines and stroke
SlimExtras ==
    \E og \in Given(BoolForms), h \in Hidden,
       bl \in BOOLEAN, gr \in BOOLEAN,
       tt \in {<<"Pilot">>, <<"The", "End">>}, sw \in {0, 100},
       mk \in BOOLEAN :
        /\ params = [DefaultParams("SlimTitleCard") EXCEPT
                        !.omit_gradient = og,
                        !.hide_season_text = h[1], !.hide_episode_text = h[2],
                        !.blur = bl, !.grayscale = gr,
                        !.title_text = tt, !.font_stroke_width = sw]
        /\ env = [DefaultEnv EXCEPT !.mask = mk]

Scenarios ==
    \/ TintedFramePlusValidation
    \/ TintedFramePlusColours
    \/ TintedFramePlusLayout
    \/ TintedFramePlusFrame
    \/ FontValidation("DawnTitleCard")
    \/ DawnExtras
    \/ FontValidation("HorizonTitleCard")
    \/ HorizonSymbols
    \/ HorizonExtras
    \/ SlimExtras

NoRead == [prop |-> "none", value |-> <<>>]

NotLoaded == [status |-> "idle", next |-> 0, names |-> {}]

Init ==
    /\ Scenarios
    /\ pc = "new"
    /\ values = params
    /\ err = NoError
    /\ self = [i \in Instances |-> NoCard]
    /\ created = [i \in Instances |-> 0]
    /\ runlog = [i \in Instances |-> <<>>]
    /\ lastRead = NoRead
    /\ formatted = {}
    /\ loader = NotLoaded

(***************************************************************************)
(* Operations.                                                             *)
(***************************************************************************)
\* the host validates the parameters with the class's CardModel
Validate ==
    /\ pc = "new"
    /\ LET r == CardModel(params)
       IN  IF r.error = NoError
           THEN pc' = "accepted" /\ values' = r.values /\ err' = NoError
           ELSE pc' = "rejected" /\ values' = values /\ err' = r.error
    /\ UNCHANGED <<params, env, self, created, runlog, lastRead, formatted,
                   loader>>

\* the host constructs card object i from the validated values
Construct(i) ==
    /\ pc = "accepted"
    /\ self[i].cls = "none"
    /\ self' = [self EXCEPT ![i] = CardInit(values)]
    /\ UNCHANGED <<params, env, pc, values, err, created, runlog, lastRead,
                   formatted, loader>>

\* create() of card object i
Create(i) ==
    /\ self[i].cls # "none"
    /\ created[i] < MaxCreates
    /\ runlog' = [runlog EXCEPT ![i] = Run(@, Command(self[i], env))]
    /\ self' = [self EXCEPT ![i] = AfterCreate(@)]
    /\ created' = [created EXCEPT ![i] = @ + 1]
    /\ UNCHANGED <<params, env, pc, values, err, lastRead, formatted, loader>>

\* a read of one command property of card object i
ReadProperty(i, name) ==
    /\ self[i].cls # "none"
    /\ name \in Properties(self[i].cls)
    /\ lastRead' = [prop |-> name, value |-> Property(self[i], env, name)]
    /\ UNCHANGED <<params, env, pc, values, err, self, created, runlog,
                   formatted, loader>>

\* one card object per validated set of parameters
Next ==
    \/ Validate
    \/ Construct(1)
    \/ Create(1)

Spec == Init /\ [][Next]_vars

(***************************************************************************)
(* Two card objects built from the same validated parameters, with         *)
(* repeated create() calls and property reads in any order.                *)
(***************************************************************************)
InitPure ==
    /\ Init
    /\ ~ env.mask
    /\ env.remote
    /\ LogoFile \in env.fs
    /\ env.logo_dims = DefaultEnv.logo_dims
    /\ params.blur_edges
    /\ ~ params.grayscale
    /\ ~ params.alignment_overlay
    /\ params.crt_state_overlay # "False"
    /\ params.omit_gradient # "True"
    /\ params.episode_text_color = None
    /\ params.font_color = "white"
    /\ params.h_align # "left"
    /\ ~ params.hide_episode_text

NextPure ==
    \/ Validate
    \/ \E i \in Instances : Construct(i)
    \/ \E i \in Instances : Create(i)
    \/ \E i \in Instances : \E name \in Properties(self[i].cls) :
           ReadProperty(i, name)

SpecPure == InitPure /\ [][NextPure]_vars

(***************************************************************************)
(* The host asks a card class for the fallback season titles of episodes.  *)
(***************************************************************************)
EpisodeInfo(n) == [season_number |-> n]

SEASON_TEXT_FORMATTER(c, episode_info) ==
    IF c = "DawnTitleCard"
    THEN DawnTitleCard_SEASON_TEXT_FORMATTER(episode_info)
    ELSE HorizonTitleCard_SEASON_TEXT_FORMATTER(episode_info)

\* CardClass.SEASON_TEXT_FORMATTER(episode_info) for an episode of season n
FormatSeason(n) ==
    /\ params.cls \in {"DawnTitleCard", "HorizonTitleCard"}
    /\ loader.status = "loaded"
    /\ formatted' = formatted \cup
           {[season_number |-> n,
             text |-> SEASON_TEXT_FORMATTER(params.cls, EpisodeInfo(n))]}
    /\ UNCHANGED <<params, env, pc, values, err, self, created, runlog,
                   lastRead, loader>>

(***************************************************************************)
(* The top-level statements of the four card modules, in order: the line   *)
(* of each, the names it binds and the names it evaluates when it runs     *)
(* (for a class statement: its bases and the module-level names its body   *)
(* evaluates, annotations, decorators and defaults of its methods          *)
(* included; the bodies of the methods are not run).  TYPE_CHECKING is     *)
(* False when the module runs, so the body of the if statement binds       *)
(* nothing.                                                                *)
(***************************************************************************)
Statement(line, binds, uses) == [line |-> line, binds |-> binds, uses |-> uses]

TintedFramePlus_module ==
    <<Statement(1, {"Path"}, {}),
      Statement(2, {"Literal", "Optional"}, {}),
      Statement(4, {"FilePath", "PositiveFloat", "PositiveInt",
                    "root_validator"}, {}),
      Statement(6, {"BaseCardTypeAllText"}, {}),
      Statement(7, {"log"}, {}),
      Statement(8, {"BaseCardType", "CardDescription", "Coordinate", "Extra",
                    "ImageMagickCommands", "Rectangle"}, {}),
      Statement(12, {"SplitCharacteristics"}, {}),
      Statement(14, {}, {"TYPE_CHECKING"}),
      Statement(19, {"TintedFramePlus"},
                {"BaseCardType", "CardDescription", "BaseCardTypeAllText",
                 "Path", "FilePath", "PositiveFloat", "Optional",
                 "PositiveInt", "Literal", "root_validator",
                 "SplitCharacteristics", "ImageMagickCommands"})>>

DawnTitleCard_module ==
    <<Statement(1, {"Path"}, {}),
      Statement(2, {"TYPE_CHECKING", "Optional", "Literal", "Union"}, {}),
      Statement(4, {"root_validator"}, {}),
      Statement(6, {"BaseCardTypeCustomFontAllText"}, {}),
      Statement(8, {"BaseCardType", "CardDescription", "Extra",
                    "ImageMagickCommands"}, {}),
      Statement(14, {"log"}, {}),
      Statement(15, {"EpisodeInfo"}, {}),
      Statement(16, {"RemoteFile"}, {}),
      Statement(17, {"SplitCharacteristics"}, {}),
      Statement(19, {}, {"TYPE_CHECKING"}),
      Statement(24, {"DawnTitleCard"},
                {"BaseCardType", "CardDescription", "Extra",
                 "BaseCardTypeCustomFontAllText", "Union", "Literal", "Path",
                 "RemoteFile", "root_validator", "SplitCharacteristics",
                 "Optional", "ImageMagickCommands", "EpisodeInfo"})>>

HorizonTitleCard_module ==
    <<Statement(1, {"Path"}, {}),
      Statement(2, {"TYPE_CHECKING", "Optional", "Literal", "Union"}, {}),
      Statement(4, {"root_validator"}, {}),
      Statement(6, {"BaseCardTypeCustomFontAllText"}, {}),
      Statement(8, {"BaseCardType", "CardDescription", "Extra",
                    "ImageMagickCommands"}, {}),
      Statement(14, {"log"}, {}),
      Statement(15, {"EpisodeInfo"}, {}),
      Statement(16, {"RemoteFile"}, {}),
      Statement(17, {"SplitCharacteristics"}, {}),
      Statement(19, {}, {"TYPE_CHECKING"}),
      Statement(24, {"HorizonTitleCard"},
                {"BaseCardType", "CardDescription", "Extra",
                 "BaseCardTypeCustomFontAllText", "Union", "Literal", "Path",
                 "RemoteFile", "root_validator", "SplitCharacteristics",
                 "Optional", "ImageMagickCommands", "EpisodeInfo"})>>

SlimTitleCard_module ==
    <<Statement(1, {"Path"}, {}),
      Statement(2, {"Optional", "TYPE_CHECKING"}, {}),
      Statement(4, {"BaseCardTypeCustomFontAllText"}, {}),
      Statement(6, {"BaseCardType", "CardDescription", "Extra",
                    "ImageMagickCommands"}, {}),
      Statement(12, {"log"}, {}),
      Statement(13, {"RemoteFile"}, {}),
      Statement(14, {"SplitCharacteristics"}, {}),
      Statement(16, {}, {"TYPE_CHECKING"}),
      Statement(21, {"SlimTitleCard"},
                {"BaseCardType", "CardDescription",
                 "BaseCardTypeCustomFontAllText", "Path", "__file__",
                 "SplitCharacteristics", "RemoteFile", "Optional",
                 "ImageMagickCommands"})>>

Module(c) ==
    CASE c = "TintedFramePlus" -> TintedFramePlus_module
      [] c = "DawnTitleCard" -> DawnTitleCard_module
      [] c = "HorizonTitleCard" -> HorizonTitleCard_module
      [] OTHER -> SlimTitleCard_module

\* the names a module's namespace holds before its first statement
ModuleGlobals == {"__name__", "__file__"}

\* the host starts to load the module of the card class
LoadModule ==
    /\ loader.status = "idle"
    /\ loader' = [status |-> "loading", next |-> 1, names |-> ModuleGlobals]
    /\ UNCHANGED <<params, env, pc, values, err, self, created, runlog,
                   lastRead, formatted>>

\* the next top-level statement runs: a name it evaluates that is not bound
\* raises NameError and ends the load
Execute ==
    /\ loader.status = "loading"
    /\ LET statements == Module(params.cls)
           statement == statements[loader.next]
       IN  IF statement.uses \subseteq loader.names
           THEN loader' =
                    [status |-> IF loader.next = Len(statements)
                                THEN "loaded" ELSE "loading",
                     next |-> loader.next + 1,
                     names |-> loader.names \cup statement.binds]
           ELSE loader' = [loader EXCEPT !.status = "NameError"]
    /\ UNCHANGED <<params, env, pc, values, err, self, created, runlog,
                   lastRead, formatted>>

InitHost ==
    /\ Init
    /\ params = DefaultParams(params.cls)
    /\ env = DefaultEnv

NextHost ==
    \/ LoadModule
    \/ Execute
    \/ \E n \in 0..MaxSeason : FormatSeason(n)

SpecHost == InitHost /\ [][NextHost]_vars

(***************************************************************************)
(* C1: for each of the four card classes, one create() call hands exactly  *)
(* one command to the image tool's run operation (the tool has received    *)
(* as many commands as create() was called), and every command begins      *)
(* with the convert of the source file and ends with the output card file  *)
(* path.                                                                   *)
(***************************************************************************)
BeginsWith(command, first) ==
    IF params.cls = "TintedFramePlus"
    THEN /\ Len(command) >= Len(first)
         /\ SubSeq(command, 1, Len(first)) = first
    ELSE Len(command) >= 1 /\ command[1] = first

EndsWith(command, last) ==
    IF params.cls = "TintedFramePlus"
    THEN /\ Len(command) >= Len(last)
         /\ SubSeq(command, Len(command) - Len(last) + 1, Len(command)) = last
    ELSE Len(command) >= 1 /\ command[Len(command)] = last

C1_OneCommandPerCreate ==
    \A i \in Instances :
        /\ Len(runlog[i]) = created[i]
        /\ \A k \in 1..Len(runlog[i]) :
               /\ BeginsWith(runlog[i][k],
                             "convert \"" \o PathStr(params.source_file) \o "\"")
               /\ EndsWith(runlog[i][k],
                           "\"" \o PathStr(params.card_file) \o "\"")

C1_Created == created[1] >= 1 /\ Len(runlog[1]) >= 1

Validated == pc # "new"

\* the top, middle and bottom elements in effect
Elements(p) ==
    <<OrDefault(p.top_element, "logo"),
      OrDefault(p.middle_element, "omit"),
      OrDefault(p.bottom_element, "index")>>

\* two positions hold the same element other than omit
SameElements(p) ==
    \E a, b \in 1..3 :
        a < b /\ Elements(p)[a] = Elements(p)[b] /\ Elements(p)[a] # "omit"

LogoIndicated(p) == \E a \in 1..3 : Elements(p)[a] = "logo"

\* the specified font path or the same-named file beside the source exists
FontFound(p) ==
    \/ Exists(p.episode_text_font)
    \/ Exists(Beside(p.source_file, p.episode_text_font.name))

WithEpisodeFont == {"TintedFramePlus", "DawnTitleCard", "HorizonTitleCard"}

TitleFontForms == {"DawnTitleCard", "HorizonTitleCard"}

(***************************************************************************)
(* C3: TintedFramePlus.CardModel validation, given an existing logo file   *)
(* and episode text font, fails with 'Top/middle/bottom elements cannot    *)
(* be the same' exactly when two of the three elements hold the same       *)
(* value other than 'omit'; every other configuration is accepted.         *)
(***************************************************************************)
C3_SameElementsRejected ==
    (/\ params.cls = "TintedFramePlus"
     /\ Validated
     /\ Exists(params.logo_file)
     /\ FontFound(params)) =>
        /\ ElementsError \in err <=> SameElements(params)
        /\ ~ SameElements(params) => pc = "accepted"

C3_Rejected ==
    /\ params.cls = "TintedFramePlus"
    /\ pc = "rejected"
    /\ Exists(params.logo_file)
    /\ err = {ElementsError}
    /\ Elements(params)[2] = Elements(params)[3]

(***************************************************************************)
(* C4 as stated: TintedFramePlus.CardModel validation raises 'Logo file    *)
(* indicated and does not exist' whenever at least one element is 'logo'   *)
(* and the logo file does not exist, and never when no element is 'logo'.  *)
(***************************************************************************)
C4_LogoErrorWhenever ==
    (params.cls = "TintedFramePlus" /\ Validated) =>
        /\ (LogoIndicated(params) /\ ~ Exists(params.logo_file)) =>
               LogoError \in err
        /\ ~ LogoIndicated(params) => LogoError \notin err

(***************************************************************************)
(* C4 amended: the logo error is raised whenever at least one element is   *)
(* 'logo', the logo file does not exist and the episode text font was      *)
(* found (validate_extras is skipped after a font error); it is never      *)
(* raised when no element is 'logo'.                                       *)
(***************************************************************************)
C4_LogoErrorAfterFont ==
    (params.cls = "TintedFramePlus" /\ Validated) =>
        /\ (/\ LogoIndicated(params)
            /\ ~ Exists(params.logo_file)
            /\ FontFound(params)) => err = {LogoError}
        /\ ~ LogoIndicated(params) => LogoError \notin err

C4_LogoMissing ==
    /\ params.cls = "TintedFramePlus"
    /\ pc = "rejected"
    /\ err = {LogoError}
    /\ Elements(params)[2] = "logo"

(***************************************************************************)
(* C5: Dawn and Horizon resolve the episode text font in this order: the   *)
(* value '{title_font}' becomes the title font file; otherwise the given   *)
(* path is kept when it exists; otherwise the same-named file in the       *)
(* source image's directory is used.  Each form is accepted when the file  *)
(* it resolves to exists.                                                  *)
(***************************************************************************)
ResolvedFont(p) ==
    IF p.episode_text_font = TitleFontKey THEN p.font_file
    ELSE IF Exists(p.episode_text_font) THEN p.episode_text_font
    ELSE Beside(p.source_file, p.episode_text_font.name)

C5_FontResolutionOrder ==
    (params.cls \in TitleFontForms /\ Validated) =>
        /\ pc = "accepted" =>
               values.episode_text_font = ResolvedFont(params)
        /\ (FieldErrors(params) = {} /\ Exists(ResolvedFont(params))) =>
               pc = "accepted"

C5_BareNameFound ==
    /\ params.cls = "DawnTitleCard"
    /\ pc = "accepted"
    /\ params.episode_text_font = BareFont
    /\ values.episode_text_font = BesideFont

(***************************************************************************)
(* C6 as stated: in TintedFramePlus, Dawn and Horizon, episode text font   *)
(* validation raises a ValueError if and only if neither the specified     *)
(* font path nor the same-named file beside the source image exists;       *)
(* after a successful validation the stored font names an existing file.   *)
(***************************************************************************)
C6_FontErrorIffNeitherExists ==
    (params.cls \in WithEpisodeFont /\ Validated) =>
        /\ FontError \in err <=> ~ FontFound(params)
        /\ pc = "accepted" => Exists(values.episode_text_font)

(***************************************************************************)
(* C6 amended: when the validator runs, it raises a ValueError if and      *)
(* only if the font it resolves to does not exist: for '{title_font}' in   *)
(* Dawn and Horizon, the title font file; for every other value, neither   *)
(* the specified path nor the same-named file beside the source image.     *)
(* After a successful validation the stored font names an existing file.   *)
(***************************************************************************)
C6_FontErrorIffUnresolved ==
    (params.cls \in WithEpisodeFont /\ Validated /\ FieldErrors(params) = {}) =>
        /\ FontError \in err <=>
               IF /\ params.cls \in TitleFontForms
                  /\ params.episode_text_font = TitleFontKey
               THEN ~ Exists(params.font_file)
               ELSE ~ FontFound(params)
        /\ pc = "accepted" => Exists(values.episode_text_font)

C6_FontMissing ==
    /\ params.cls = "TintedFramePlus"
    /\ pc = "rejected"
    /\ err = {FontError}
    /\ params.episode_text_font = BareFont

(***************************************************************************)
(* C7: after a successful validation no derived colour is left unset:      *)
(* episode_text_color is font_color when it was not supplied, the episode  *)
(* text stroke colour of Dawn and Horizon is stroke_color when it was not  *)
(* supplied, the frame colour of TintedFramePlus is font_color when it     *)
(* was not supplied; a supplied colour is kept.                            *)
(***************************************************************************)
Supplied(colour, default) == IF colour = None THEN default ELSE colour

C7_ColoursDerived ==
    (params.cls \in WithEpisodeFont /\ pc = "accepted") =>
        /\ values.episode_text_color =
               Supplied(params.episode_text_color, params.font_color)
        /\ values.episode_text_color # None
        /\ params.cls \in TitleFontForms =>
               /\ values.episode_text_stroke_color =
                      Supplied(params.episode_text_stroke_color,
                               OrDefault(params.stroke_color, "black"))
               /\ values.episode_text_stroke_color # None
        /\ params.cls = "TintedFramePlus" =>
               /\ values.frame_color =
                      Supplied(params.frame_color, params.font_color)
               /\ values.frame_color # None

C7_StrokeColourDerived ==
    /\ params.cls = "HorizonTitleCard"
    /\ pc = "accepted"
    /\ params.episode_text_stroke_color = None
    /\ params.stroke_color = "navy"
    /\ values.episode_text_stroke_color = "navy"

(***************************************************************************)
(* C8: the CRT overlay extra of Horizon accepts both 'nobezel' and 'bezel' *)
(* at validation; 'nobezel' selects the bezel-free overlay images, 'bezel' *)
(* the bezel overlay images, and without the extra no overlay command is   *)
(* emitted.                                                                *)
(***************************************************************************)
Contains(command, part) == \E n \in 1..Len(command) : command[n] = part

Image(file) == "\"" \o PathStr(file) \o "\""

HorizonBezelFree ==
    {Horizon_OVERLAY_PLAIN, Horizon_OVERLAY_PLAY, Horizon_OVERLAY_REWIND}

HorizonBezel ==
    {Horizon_OVERLAY_PLAIN_BEZEL, Horizon_OVERLAY_PLAY_BEZEL,
     Horizon_OVERLAY_REWIND_BEZEL}

C8_CrtOverlayKinds ==
    (params.cls = "HorizonTitleCard" /\ Validated) =>
        /\ params.crt_overlay \in {"nobezel", "bezel"} =>
               "crt_overlay" \notin err
        /\ \A k \in 1..Len(runlog[1]) :
               LET used == {f \in HorizonBezelFree \cup HorizonBezel :
                                Contains(runlog[1][k], Image(f))}
               IN  /\ params.crt_overlay = "nobezel" =>
                          used # {} /\ used \subseteq HorizonBezelFree
                   /\ params.crt_overlay = "bezel" =>
                          used # {} /\ used \subseteq HorizonBezel
                   /\ params.crt_overlay = None => used = {}

(***************************************************************************)
(* C9: every built-in symbol name the Horizon tooltip lists, and 'logo',   *)
(* passes validation and, when its image file exists, the command          *)
(* composites exactly that image; without a symbol nothing is emitted.     *)
(***************************************************************************)
SymbolPart(file) == "\\( \"" \o PathStr(file) \o "\""

SymbolImages == {Horizon_SYMBOL_IMAGE(n) : n \in BuiltInSymbols} \cup {LogoFile}

C9_SymbolsComposited ==
    (params.cls = "HorizonTitleCard" /\ Validated) =>
        /\ params.symbol \in BuiltInSymbols \cup {"logo"} =>
               "symbol" \notin err
        /\ \A k \in 1..Len(runlog[1]) :
               LET used == {f \in SymbolImages :
                                Contains(runlog[1][k], SymbolPart(f))}
               IN  /\ (params.symbol \in BuiltInSymbols /\ env.remote) =>
                          used = {Horizon_SYMBOL_IMAGE(params.symbol)}
                   /\ (params.symbol = "logo" /\ Exists(params.logo_file)) =>
                          used = {params.logo_file}
                   /\ params.symbol = None => used = {}

(***************************************************************************)
(* C10: the horizontal alignment extra of Horizon accepts each of 'left',  *)
(* 'center' and 'right' at validation and defaults to 'left'.              *)
(***************************************************************************)
C10_AlignmentsAccepted ==
    (params.cls = "HorizonTitleCard" /\ Validated) =>
        /\ params.h_align \in {"left", "center", "right"} =>
               "h_align" \notin err
        /\ (params.h_align = Unset /\ pc = "accepted") =>
               values.h_align = "left"

(***************************************************************************)
(* C11: in Dawn and Horizon the watched status changes the CRT overlay     *)
(* only when a CRT overlay is enabled and crt_state_overlay is True: then  *)
(* an unwatched episode gets the 'play' overlay and a watched one the      *)
(* 'rewind' overlay (the bezel variant exactly when crt_overlay is         *)
(* 'bezel'); with crt_state_overlay False the plain overlay of the chosen  *)
(* bezel kind is used for both watched states; with crt_overlay unset no   *)
(* overlay command is emitted.                                             *)
(***************************************************************************)
CrtOverlays(c) ==
    IF c = "DawnTitleCard"
    THEN [plain |-> Dawn_OVERLAY_PLAIN, play |-> Dawn_OVERLAY_PLAY,
          rewind |-> Dawn_OVERLAY_REWIND,
          plain_bezel |-> Dawn_OVERLAY_PLAIN_BEZEL,
          play_bezel |-> Dawn_OVERLAY_PLAY_BEZEL,
          rewind_bezel |-> Dawn_OVERLAY_REWIND_BEZEL]
    ELSE [plain |-> Horizon_OVERLAY_PLAIN, play |-> Horizon_OVERLAY_PLAY,
          rewind |-> Horizon_OVERLAY_REWIND,
          plain_bezel |-> Horizon_OVERLAY_PLAIN_BEZEL,
          play_bezel |-> Horizon_OVERLAY_PLAY_BEZEL,
          rewind_bezel |-> Horizon_OVERLAY_REWIND_BEZEL]

\* the overlay the claim expects for a card with a CRT overlay enabled
ExpectedOverlay(s, watched) ==
    LET o == CrtOverlays(s.cls)
    IN  IF s.crt_overlay = "bezel"
        THEN IF ~ s.crt_state_overlay THEN o.plain_bezel
             ELSE IF watched THEN o.rewind_bezel ELSE o.play_bezel
        ELSE IF ~ s.crt_state_overlay THEN o.plain
             ELSE IF watched THEN o.rewind ELSE o.play

WatchedOverlayIn(classes) ==
    (params.cls \in classes /\ self[1].cls # "none") =>
        \A k \in 1..Len(runlog[1]) :
            LET o == CrtOverlays(params.cls)
                used == {f \in {o[n] : n \in DOMAIN o} :
                             Contains(runlog[1][k], Image(f))}
            IN  IF self[1].crt_overlay = None
                THEN used = {}
                ELSE used = {ExpectedOverlay(self[1], env.watched)}

C11_WatchedOverlay == WatchedOverlayIn({"DawnTitleCard", "HorizonTitleCard"})

(***************************************************************************)
(* C12: SEASON_TEXT_FORMATTER of Dawn and Horizon returns 'Specials' for   *)
(* season number 0 and, for every other season number n, the letter 'S'    *)
(* followed by n zero-padded to two digits, so two episodes of different   *)
(* non-zero seasons get different season texts.                            *)
(***************************************************************************)
ZeroPadded(n) == IF n < 10 THEN "0" \o ToString(n) ELSE ToString(n)

C12_SeasonTextFromNumber ==
    /\ \A r \in formatted :
           r.text = IF r.season_number = 0
                    THEN "Specials"
                    ELSE "S" \o ZeroPadded(r.season_number)
    /\ \A r1, r2 \in formatted :
           (/\ r1.season_number # 0
            /\ r2.season_number # 0
            /\ r1.season_number # r2.season_number) => r1.text # r2.text

(***************************************************************************)
(* C13: in Dawn, Horizon and Slim the gradient overlay commands are part   *)
(* of the emitted command if and only if omit_gradient is False; when the  *)
(* extra is not specified, Dawn and Horizon omit the gradient (default     *)
(* True) and Slim includes it (default False).                             *)
(***************************************************************************)
WithGradient == {"DawnTitleCard", "HorizonTitleCard", "SlimTitleCard"}

\* omit_gradient as the claim has it: the given value, else the class default
OmitGradient(p) ==
    IF p.omit_gradient = Unset
    THEN p.cls \in {"DawnTitleCard", "HorizonTitleCard"}
    ELSE p.omit_gradient = "True"

\* the gradient image and, following it, its composite are in the command
HasGradient(command, c) ==
    LET image == IF c = "DawnTitleCard" THEN Image(Dawn_GRADIENT_IMAGE)
                 ELSE IF c = "SlimTitleCard" THEN Image(Slim_GRADIENT_IMAGE)
                 ELSE "\\( " \o Image(Horizon_GRADIENT_IMAGE)
        after == IF c = "HorizonTitleCard" THEN 2 ELSE 1
    IN  \E n \in 1..(Len(command) - after) :
            command[n] = image /\ command[n + after] = "-composite"

C13_GradientUnlessOmitted ==
    params.cls \in WithGradient =>
        \A k \in 1..Len(runlog[1]) :
            HasGradient(runlog[1][k], params.cls) <=> ~ OmitGradient(params)

C13_GradientOverlaid ==
    /\ params.cls = "DawnTitleCard"
    /\ params.omit_gradient = "False"
    /\ Len(runlog[1]) >= 1
    /\ HasGradient(runlog[1][1], "DawnTitleCard")

(***************************************************************************)
(* Notions the claims on the frame edges of TintedFramePlus share.  The    *)
(* rectangles of the top edge are the ones that end at the lower side of   *)
(* the top edge, those of the bottom edge the ones that start at the upper *)
(* side of the bottom edge; horizontal positions are doubled.              *)
(***************************************************************************)
In(command, part) ==
    \E n \in 1..(Len(command) - Len(part) + 1) :
        SubSeq(command, n, n + Len(part) - 1) = part

Count(command, part) ==
    Cardinality({n \in 1..(Len(command) - Len(part) + 1) :
                     SubSeq(command, n, n + Len(part) - 1) = part})

LastCommand == runlog[1][Len(runlog[1])]

TopEdgeEnd == BOX_OFFSET + params.frame_width

BottomEdgeStart == HEIGHT - BOX_OFFSET - params.frame_width

TopRectangles == Count(LastCommand, "," \o ToString(TopEdgeEnd) \o "\"")

BottomRectangles == Count(LastCommand, "," \o ToString(BottomEdgeStart) \o ",")

\* the element is drawn on its edge
Rendered(element) ==
    /\ element # "omit"
    /\ element = "index" =>
           ~ (params.hide_season_text /\ params.hide_episode_text)
    /\ element = "logo" => Exists(params.logo_file)

\* the width the element is drawn with
RenderedWidth(element) ==
    IF element = "index" THEN env.text_width
    ELSE (env.logo_dims[1] * 150 * params.logo_size)
             \div (env.logo_dims[2] * 100)

\* the gap: the element and 25 pixels on each side, centred on the card
GapLeft2(element) == WIDTH - (RenderedWidth(element) + 2 * 25)

GapRight2(element) == WIDTH + (RenderedWidth(element) + 2 * 25)

GapFits(element) ==
    /\ GapLeft2(element) >= 2 * 185
    /\ GapRight2(element) <= 2 * (WIDTH - 185)

(***************************************************************************)
(* C14: in TintedFramePlus, when an element is rendered at the top (or     *)
(* bottom) edge, the gap is the element width plus a 25-pixel margin on    *)
(* each side, centred on the card: if the gap extends past either side     *)
(* inset of the frame the edge contributes no rectangle at all, otherwise  *)
(* exactly two; each edge always contributes 0, 1 or 2 rectangles.         *)
(***************************************************************************)
EdgeRectangles(n, element) ==
    /\ n \in {0, 1, 2}
    /\ Rendered(element) => n = IF GapFits(element) THEN 2 ELSE 0

C14_EdgeRectangles ==
    (params.cls = "TintedFramePlus" /\ Len(runlog[1]) >= 1) =>
        /\ EdgeRectangles(TopRectangles, Elements(params)[1])
        /\ EdgeRectangles(BottomRectangles, Elements(params)[3])

C14_GapTooWide ==
    /\ params.cls = "TintedFramePlus"
    /\ Len(runlog[1]) >= 1
    /\ Elements(params)[1] = "index"
    /\ env.text_width = 2781
    /\ TopRectangles = 0

(***************************************************************************)
(* C15: whenever TintedFramePlus splits the top or bottom frame edge into  *)
(* two segments, the left segment runs from x = 185 to left_box_x and the  *)
(* right one from right_box_x to x = WIDTH - 185, with                     *)
(* 185 <= left_box_x <= right_box_x <= WIDTH - 185 and                     *)
(* left_box_x + right_box_x = WIDTH: no segment has a negative width and   *)
(* the gap is centred on the card.                                         *)
(***************************************************************************)
SplitEdge(element, upper, lower) ==
    LET left_box_x2 == GapLeft2(element)
        right_box_x2 == GapRight2(element)
    IN  /\ In(LastCommand,
              Rectangle(Coordinate(2 * 185, upper),
                        Coordinate(left_box_x2, lower)))
        /\ In(LastCommand,
              Rectangle(Coordinate(right_box_x2, upper),
                        Coordinate(2 * (WIDTH - 185), lower)))
        /\ 2 * 185 <= left_box_x2
        /\ left_box_x2 <= right_box_x2
        /\ right_box_x2 <= 2 * (WIDTH - 185)
        /\ left_box_x2 + right_box_x2 = 2 * WIDTH

C15_SegmentsWithinFrame ==
    (params.cls = "TintedFramePlus" /\ Len(runlog[1]) >= 1) =>
        /\ TopRectangles = 2 =>
               SplitEdge(Elements(params)[1], BOX_OFFSET, TopEdgeEnd)
        /\ BottomRectangles = 2 =>
               SplitEdge(Elements(params)[3], BottomEdgeStart,
                         HEIGHT - BOX_OFFSET)

C15_SegmentOfNoWidth ==
    /\ params.cls = "TintedFramePlus"
    /\ Len(runlog[1]) >= 1
    /\ Elements(params)[3] = "index"
    /\ env.text_width = 2780
    /\ BottomRectangles = 2
    /\ GapLeft2("index") = 2 * 185

(***************************************************************************)
(* C16: loading each of the four card modules succeeds: executing the      *)
(* module's top-level statements in order, every name that is evaluated    *)
(* (TYPE_CHECKING and the names used in the class body included) has been  *)
(* imported or defined by an earlier statement, so all four classes,       *)
(* TintedFramePlus included, become available to the host.                 *)
(***************************************************************************)
C16_ModulesLoad ==
    /\ loader.status = "loading" =>
           Module(params.cls)[loader.next].uses \subseteq loader.names
    /\ loader.status # "NameError"
    /\ loader.status = "loaded" => params.cls \in loader.names

====
